---- MODULE Spec2Model ----
(***************************************************************************)
(* Model of cpp/core/utils/Print.h: the debug printing helpers of the      *)
(* gluten namespace.  Every helper writes a fixed series of fragments to   *)
(* std::cout, one fragment per operator<<, when GLUTEN_PRINT_DEBUG is      *)
(* defined, and has an empty body otherwise.                               *)
(*                                                                         *)
(* The sink is the sequence of fragments written so far; each fragment     *)
(* carries the thread that wrote it (a ghost tag: the stream itself keeps  *)
(* only the text).  A thread runs a call one write at a time, so that      *)
(* writes of several threads may interleave.                               *)
(***************************************************************************)
EXTENDS Integers, Sequences, FiniteSets

VARIABLES debug, sink, pc, frame, calls

vars == <<debug, sink, pc, frame, calls>>

\* ------------------------------------------------------------------ bounds

\* Longest generated vector (the vectors of Examples are added to them).
MaxLen == 3
\* Calls one thread makes in one run.
MaxCalls == 2
\* Elements a cursor that ran past the end of its range may still read
\* before the read faults.
MaxOverrun == 2

\* ------------------------------------------------------------------ inputs

Threads == {1, 2}

\* Element values of the generated vectors.
Values == {1, 2}

\* The vectors the specification's examples use.
Examples == {<<1, 2, 3>>, <<10, 20>>, <<5, 6, 7, 8>>}

SeqsUpTo(S, n) == UNION {[1..k -> S] : k \in 0..n}

Vectors == SeqsUpTo(Values, MaxLen) \cup Examples

\* A printable scalar: an integer or a string (what operator<< accepts).
IntV(i) == [k |-> "int", i |-> i, s |-> ""]
StrV(s) == [k |-> "str", i |-> 0, s |-> s]

Scalars == {IntV(7), StrV("x")}

\* Objects with a ToString()/toString() method, named by a number.
Objects == {1, 2}

\* Labels: the default "" and a given one.
Names == {"", "X"}

\* Separators given to PrintSplit/PrintSplitLF: the default and another.
Splits == {": ", " -> "}

\* Enclosing function names (__func__) at a macro's call site.
Funcs == {"main"}

\* Text read through a cursor that is past the end of its range.
Garbage == {"?", "??"}

\* Sink contents before the first call of the run.
Prior == {<<>>, <<[by |-> 0, text |-> "prior\n"]>>}

\* ---------------------------------------------------------------- rendering

Digit(d) == SubSeq("0123456789", d + 1, d + 1)

\* operator<< of an unsigned integer: its decimal digits.
RECURSIVE Dec(_)
Dec(n) == IF n < 10 THEN Digit(n) ELSE Dec(n \div 10) \o Digit(n % 10)

\* operator<< of a scalar.
Render(x) == IF x.k = "int" THEN Dec(x.i) ELSE x.s

\* The element type's ToString() and toString() methods.
ToString(o) == "T" \o Dec(o)
toString(o) == "t" \o Dec(o)

\* std::endl
LF == "\n"

\* The text of a sequence of fragments.
RECURSIVE Cat(_)
Cat(fs) == IF fs = <<>> THEN "" ELSE Head(fs) \o Cat(Tail(fs))

\* ------------------------------------------- operations, GLUTEN_PRINT_DEBUG
\* Each operator is the series of fragments the function writes, in order.
\* A cursor into a container is the number of elements before it.

Print_1(t) == <<Render(t)>>

PrintLF_1(t) == <<Render(t), LF>>

Print_2(a, b) == <<Render(a), Render(b)>>

PrintLF_2(a, b) == <<Render(a), Render(b), LF>>

PrintSplit(a, b, split) == <<Render(a), split, Render(b)>>

PrintSplitLF(a, b, split) == <<Render(a), split, Render(b), LF>>

PrintEQ(a, b) == <<Render(a), " = ", Render(b)>>

\* PrintEQLF with the second value written before the " = ".
PrintEQLF_Reordered(a, b) == <<Render(a), Render(b), " = ", LF>>

PrintEQLF(a, b) == <<Render(a), " = ", Render(b), LF>>

PrintVS(a, b) == <<Render(a), " vs ", Render(b)>>

PrintVSLF(a, b) == <<Render(a), " vs ", Render(b), LF>>

\* PrintElement with the test of the flag inverted.
PrintElement_FlagInverted(e, first) ==
    (IF first THEN <<", ">> ELSE <<>>) \o <<Render(e)>>

PrintElement(e, first) == (IF ~first THEN <<", ">> ELSE <<>>) \o <<Render(e)>>

\* for (; begin != end; ++begin) std::cout << *begin << " ";
RECURSIVE PrintRangeLoop(_, _, _)
PrintRangeLoop(c, begin, end) ==
    IF begin # end
    THEN <<Dec(c[begin + 1]), " ">> \o PrintRangeLoop(c, begin + 1, end)
    ELSE <<>>

PrintRange(c, begin, end) ==
    <<"{ ">> \o PrintRangeLoop(c, begin, end) \o <<"}", LF>>

\* if (!containerName.empty()) std::cout << containerName << " ";
ContainerLabel(containerName) ==
    IF containerName # "" THEN <<containerName, " ">> ELSE <<>>

\* PrintContainer without the test for an empty name.
PrintContainer_LabelAlways(c, containerName) ==
    <<containerName, " ">>
        \o <<"size = ", Dec(Len(c)), " ">>
        \o PrintRange(c, 0, Len(c))

PrintContainer(c, containerName) ==
    ContainerLabel(containerName)
        \o <<"size = ", Dec(Len(c)), " ">>
        \o PrintRange(c, 0, Len(c))

PrintAB2String(a, b) == <<Render(a), " = ", toString(b), LF>>

Print2String(t, prefix) ==
    (IF prefix # "" THEN <<prefix, ": ">> ELSE <<>>) \o <<toString(t), LF>>

\* PrintRangeToString and PrintRange2String run their loop one iteration at
\* a time (RangeLoopBody, RangeLoopExit and RangeLoopOverrun below); these
\* are the writes before the loop and after it.
\* The opening brace without its padding.
PrintRangeToStringOpen_NoPad == <<"{">>

PrintRangeToStringOpen == <<"{ ">>

PrintRangeToStringClose == <<"}">>

\* The writes of PrintContainerToString and PrintContainer2String before
\* the call of PrintRangeToString / PrintRange2String.
PrintContainerToStringHead(c, containerName) ==
    ContainerLabel(containerName) \o <<"size = ", Dec(Len(c)), LF>>

\* for (auto& x : c) std::cout << " " << x->ToString();
RECURSIVE PrintVectorToStringLoop(_, _)
PrintVectorToStringLoop(c, i) ==
    IF i < Len(c)
    THEN <<" ", ToString(c[i + 1])>> \o PrintVectorToStringLoop(c, i + 1)
    ELSE <<>>

PrintVectorToString(c, containerName) ==
    <<containerName, " = {">> \o PrintVectorToStringLoop(c, 0) \o <<" }", LF>>

RECURSIVE PrintVector2StringLoop(_, _)
PrintVector2StringLoop(c, i) ==
    IF i < Len(c)
    THEN <<" ", toString(c[i + 1])>> \o PrintVector2StringLoop(c, i + 1)
    ELSE <<>>

PrintVector2String(c, containerName) ==
    <<containerName, " = {">> \o PrintVector2StringLoop(c, 0) \o <<" }", LF>>

\* for (size_t i = 0; i < v.size(); ++i) { Print("\t"); PrintSplitLF(i, v[i], " -> "); }
RECURSIVE PrintVectorMappingLoop(_, _)
PrintVectorMappingLoop(v, i) ==
    IF i < Len(v)
    THEN Print_1(StrV("\t")) \o PrintSplitLF(IntV(i), IntV(v[i + 1]), " -> ")
             \o PrintVectorMappingLoop(v, i + 1)
    ELSE <<>>

PrintVectorMapping(v, vectorName) ==
    <<vectorName, "\n{\n">> \o PrintVectorMappingLoop(v, 0) \o <<"}", LF>>

\* for (; index != end; ++index) PrintElement(v[index], index == begin);
RECURSIVE PrintVectorRangeLoop(_, _, _, _)
PrintVectorRangeLoop(v, begin, index, end) ==
    IF index # end
    THEN PrintElement(IntV(v[index + 1]), index = begin)
             \o PrintVectorRangeLoop(v, begin, index + 1, end)
    ELSE <<>>

PrintVectorRange(v, begin, end) ==
    <<"{">> \o PrintVectorRangeLoop(v, begin, begin, end) \o <<"}", LF>>

\* The convenience macros; #a is the text of the argument expression.
PRINT(text, a) == PrintSplit(StrV(text), a, ": ")

PRINTLF(text, a) == PrintSplitLF(StrV(text), a, ": ")

PRINT_FUNCTION_NAME(func) == <<func, LF>>

PRINT_FUNCTION_SPLIT_LINE(func) == <<"===== ", func, " ======", LF>>

\* ------------------------------------------------------------------- calls
\* A call: the operation and its arguments (the fields an operation does
\* not take keep the values of NoArgs).  str is the string argument: a
\* separator, a label, a prefix, or the enclosing function's name.

NoArgs ==
    [op |-> "none", a |-> IntV(0), b |-> IntV(0), str |-> "", first |-> FALSE,
     v |-> <<>>, from |-> 0, to |-> 0, o |-> 0]

\* The operations that end in the loop of PrintRangeToString or of
\* PrintRange2String.
RangeToStringOps ==
    {"PrintRangeToString", "PrintContainerToString", "PRINT_CONTAINER_TO_STRING"}

Range2StringOps ==
    {"PrintRange2String", "PrintContainer2String", "PRINT_CONTAINER_2_STRING"}

RangeLoopOps == RangeToStringOps \cup Range2StringOps

\* begin->ToString() or begin->toString(), by the operation.
RenderElement(op, o) == IF op \in RangeToStringOps THEN ToString(o) ELSE toString(o)

\* The fragments a call writes with GLUTEN_PRINT_DEBUG defined; for the
\* operations of RangeLoopOps, those written before the loop.
Enabled(c) ==
    CASE c.op = "Print_1" -> Print_1(c.a)
      [] c.op = "PrintLF_1" -> PrintLF_1(c.a)
      [] c.op = "Print_2" -> Print_2(c.a, c.b)
      [] c.op = "PrintLF_2" -> PrintLF_2(c.a, c.b)
      [] c.op = "PrintSplit" -> PrintSplit(c.a, c.b, c.str)
      [] c.op = "PrintSplitLF" -> PrintSplitLF(c.a, c.b, c.str)
      [] c.op = "PrintEQ" -> PrintEQ(c.a, c.b)
      [] c.op = "PrintEQLF" -> PrintEQLF(c.a, c.b)
      [] c.op = "PrintVS" -> PrintVS(c.a, c.b)
      [] c.op = "PrintVSLF" -> PrintVSLF(c.a, c.b)
      [] c.op = "PrintElement" -> PrintElement(c.a, c.first)
      [] c.op = "PrintRange" -> PrintRange(c.v, 0, Len(c.v))
      [] c.op = "PrintContainer" -> PrintContainer(c.v, c.str)
      [] c.op = "PrintAB2String" -> PrintAB2String(c.a, c.o)
      [] c.op = "Print2String" -> Print2String(c.o, c.str)
      [] c.op = "PrintRangeToString" -> PrintRangeToStringOpen
      [] c.op = "PrintRange2String" -> PrintRangeToStringOpen
      [] c.op = "PrintContainerToString" ->
            PrintContainerToStringHead(c.v, c.str) \o PrintRangeToStringOpen
      [] c.op = "PrintContainer2String" ->
            PrintContainerToStringHead(c.v, c.str) \o PrintRangeToStringOpen
      [] c.op = "PrintVectorToString" -> PrintVectorToString(c.v, c.str)
      [] c.op = "PrintVector2String" -> PrintVector2String(c.v, c.str)
      [] c.op = "PrintVectorMapping" -> PrintVectorMapping(c.v, c.str)
      [] c.op = "PrintVectorRange" -> PrintVectorRange(c.v, c.from, c.to)
      [] c.op = "PRINT" -> PRINT("a", c.a)
      [] c.op = "PRINTLF" -> PRINTLF("a", c.a)
      [] c.op = "PRINT_FUNCTION_NAME" -> PRINT_FUNCTION_NAME(c.str)
      [] c.op = "PRINT_FUNCTION_SPLIT_LINE" -> PRINT_FUNCTION_SPLIT_LINE(c.str)
      [] c.op = "PRINT_CONTAINER" -> PrintContainer(c.v, "c")
      [] c.op = "PRINT_CONTAINER_TO_STRING" ->
            PrintContainerToStringHead(c.v, "v") \o PrintRangeToStringOpen
      [] c.op = "PRINT_CONTAINER_2_STRING" ->
            PrintContainerToStringHead(c.v, "v") \o PrintRangeToStringOpen
      [] c.op = "PRINT_VECTOR_TO_STRING" -> PrintVectorToString(c.v, "v")
      [] c.op = "PRINT_VECTOR_2_STRING" -> PrintVector2String(c.v, "v")
      [] c.op = "PRINT_VECTOR_MAPPING" -> PrintVectorMapping(c.v, "v")

\* The disabled build with the body of PrintLF(t) left in place.
Disabled_PrintLFLeft(c) == IF c.op = "PrintLF_1" THEN Enabled(c) ELSE <<>>

\* The same call without GLUTEN_PRINT_DEBUG: every function has an empty
\* body and every macro expands to nothing.
Disabled(c) == <<>>

\* #ifdef GLUTEN_PRINT_DEBUG ... #else ... #endif
Writes(c) == IF debug THEN Enabled(c) ELSE Disabled(c)

\* ------------------------------------------------------------------- state
\* debug    GLUTEN_PRINT_DEBUG is defined (fixed by the build)
\* sink     std::cout: the fragments written, oldest first
\* pc       where each thread is: "idle" (between calls), "write" (about to
\*          write the next pending fragment), "test" (at the loop condition
\*          of PrintRangeToString/PrintRange2String), "step" (at the two
\*          increments of that loop), "crashed" (the process faulted)
\* frame    each thread's current (or last) call: the call, the fragments
\*          still to write, where the thread goes once they are written,
\*          the loop's cursor (begin, as the number of elements before
\*          it; end is the container's size), and two ghosts:
\*          the sink's length at the call and the text of the thread's
\*          previous call
\* calls    calls each thread has made

NoFrame ==
    [call |-> NoArgs, pending |-> <<>>, it |-> 0, resume |-> "idle",
     base |-> 0, prev |-> ""]

\* The fragments thread t's current call has written, and their text.
OutFrags(t) ==
    LET mine(w) == w.by = t
        text(ws) == [i \in 1..Len(ws) |-> ws[i].text]
    IN text(SelectSeq(SubSeq(sink, frame[t].base + 1, Len(sink)), mine))

OutText(t) == Cat(OutFrags(t))

SinkText == Cat([i \in 1..Len(sink) |-> sink[i].text])

Running == \A u \in Threads : pc[u] # "crashed"

\* Entry into a function: its writes become pending.
Start(t, c) ==
    LET w == Writes(c)
        r == IF debug /\ c.op \in RangeLoopOps THEN "test" ELSE "idle"
    IN /\ frame' = [frame EXCEPT ![t] =
                       [call |-> c, pending |-> w, it |-> 0, resume |-> r,
                        base |-> Len(sink),
                        prev |-> IF calls[t] = 0 THEN "" ELSE OutText(t)]]
       /\ pc' = [pc EXCEPT ![t] = IF w # <<>> THEN "write" ELSE r]
       /\ calls' = [calls EXCEPT ![t] = @ + 1]
       /\ UNCHANGED <<debug, sink>>

\* A call with new arguments.  With the output enabled a run follows one
\* call per thread and its repetitions (Recall); disabled calls leave
\* nothing behind, and any sequence of them is followed.
Invoke(t, c) ==
    /\ Running
    /\ pc[t] = "idle"
    /\ calls[t] < MaxCalls
    /\ calls[t] = 0 \/ ~debug
    /\ Start(t, c)

\* The same call again, with the same arguments.
Recall(t) ==
    /\ Running
    /\ pc[t] = "idle"
    /\ debug
    /\ 0 < calls[t]
    /\ calls[t] < MaxCalls
    /\ Start(t, frame[t].call)

\* One operator<<: the next pending fragment goes to the end of the sink.
Write(t) ==
    /\ Running
    /\ pc[t] = "write"
    /\ sink' = Append(sink, [by |-> t, text |-> Head(frame[t].pending)])
    /\ frame' = [frame EXCEPT ![t].pending = Tail(@)]
    /\ pc' = [pc EXCEPT ![t] =
                 IF Tail(frame[t].pending) # <<>> THEN "write" ELSE frame[t].resume]
    /\ UNCHANGED <<debug, calls>>

\* ------------------------------------------ the loop of PrintRangeToString
\* for (; begin != end; ++begin) { std::cout << begin->ToString() << " "; ++begin; }

\* begin == end: the loop ends and the closing brace is written.
RangeLoopExit(t) ==
    /\ Running
    /\ pc[t] = "test"
    /\ frame[t].it = Len(frame[t].call.v)
    /\ frame' = [frame EXCEPT ![t].pending = PrintRangeToStringClose,
                              ![t].resume = "idle"]
    /\ pc' = [pc EXCEPT ![t] = "write"]
    /\ UNCHANGED <<debug, sink, calls>>

\* begin != end, begin inside the range: the element's text and a space.
RangeLoopBody(t) ==
    /\ Running
    /\ pc[t] = "test"
    /\ frame[t].it # Len(frame[t].call.v)
    /\ frame[t].it < Len(frame[t].call.v)
    /\ frame' = [frame EXCEPT
                    ![t].pending =
                        <<RenderElement(frame[t].call.op,
                                        frame[t].call.v[frame[t].it + 1]), " ">>,
                    ![t].resume = "step"]
    /\ pc' = [pc EXCEPT ![t] = "write"]
    /\ UNCHANGED <<debug, sink, calls>>

\* The ++begin of the body and the ++begin of the for statement.
RangeLoopStep(t) ==
    /\ Running
    /\ pc[t] = "step"
    /\ frame' = [frame EXCEPT ![t].it = @ + 2]
    /\ pc' = [pc EXCEPT ![t] = "test"]
    /\ UNCHANGED <<debug, sink, calls>>

\* begin != end with begin past the end: begin-> reads outside the range,
\* which is undefined.  The read yields some text and the loop goes on, or
\* it faults; it faults at the latest MaxOverrun elements past the end.
RangeLoopOverrun(t) ==
    /\ Running
    /\ pc[t] = "test"
    /\ frame[t].it # Len(frame[t].call.v)
    /\ frame[t].it > Len(frame[t].call.v)
    /\ \/ /\ frame[t].it - Len(frame[t].call.v) < MaxOverrun
          /\ \E g \in Garbage :
                frame' = [frame EXCEPT ![t].pending = <<g, " ">>,
                                       ![t].resume = "step"]
          /\ pc' = [pc EXCEPT ![t] = "write"]
       \/ /\ pc' = [pc EXCEPT ![t] = "crashed"]
          /\ UNCHANGED frame
    /\ UNCHANGED <<debug, sink, calls>>

\* ------------------------------------------------------ one action per call
\* The arguments are drawn from the input sets; Call_X(t) is thread t
\* calling X.

Call_Print_1(t) ==
    \E a \in Scalars :
        Invoke(t, [NoArgs EXCEPT !.op = "Print_1", !.a = a])

Call_PrintLF_1(t) ==
    \E a \in Scalars :
        Invoke(t, [NoArgs EXCEPT !.op = "PrintLF_1", !.a = a])

Call_Print_2(t) ==
    \E a \in Scalars, b \in Scalars :
        Invoke(t, [NoArgs EXCEPT !.op = "Print_2", !.a = a, !.b = b])

Call_PrintLF_2(t) ==
    \E a \in Scalars, b \in Scalars :
        Invoke(t, [NoArgs EXCEPT !.op = "PrintLF_2", !.a = a, !.b = b])

Call_PrintSplit(t) ==
    \E a \in Scalars, b \in Scalars, split \in Splits :
        Invoke(t, [NoArgs EXCEPT !.op = "PrintSplit", !.a = a, !.b = b, !.str = split])

Call_PrintSplitLF(t) ==
    \E a \in Scalars, b \in Scalars, split \in Splits :
        Invoke(t, [NoArgs EXCEPT !.op = "PrintSplitLF", !.a = a, !.b = b, !.str = split])

Call_PrintEQ(t) ==
    \E a \in Scalars, b \in Scalars :
        Invoke(t, [NoArgs EXCEPT !.op = "PrintEQ", !.a = a, !.b = b])

Call_PrintEQLF(t) ==
    \E a \in Scalars, b \in Scalars :
        Invoke(t, [NoArgs EXCEPT !.op = "PrintEQLF", !.a = a, !.b = b])

Call_PrintVS(t) ==
    \E a \in Scalars, b \in Scalars :
        Invoke(t, [NoArgs EXCEPT !.op = "PrintVS", !.a = a, !.b = b])

Call_PrintVSLF(t) ==
    \E a \in Scalars, b \in Scalars :
        Invoke(t, [NoArgs EXCEPT !.op = "PrintVSLF", !.a = a, !.b = b])

Call_PrintElement(t) ==
    \E e \in Scalars, first \in BOOLEAN :
        Invoke(t, [NoArgs EXCEPT !.op = "PrintElement", !.a = e, !.first = first])

Call_PrintRange(t) ==
    \E c \in Vectors :
        Invoke(t, [NoArgs EXCEPT !.op = "PrintRange", !.v = c])

Call_PrintContainer(t) ==
    \E c \in Vectors, containerName \in Names :
        Invoke(t, [NoArgs EXCEPT !.op = "PrintContainer", !.v = c, !.str = containerName])

Call_PrintAB2String(t) ==
    \E a \in Scalars, b \in Objects :
        Invoke(t, [NoArgs EXCEPT !.op = "PrintAB2String", !.a = a, !.o = b])

Call_Print2String(t) ==
    \E o \in Objects, prefix \in Names :
        Invoke(t, [NoArgs EXCEPT !.op = "Print2String", !.o = o, !.str = prefix])

Call_PrintRangeToString(t) ==
    \E c \in Vectors :
        Invoke(t, [NoArgs EXCEPT !.op = "PrintRangeToString", !.v = c])

Call_PrintRange2String(t) ==
    \E c \in Vectors :
        Invoke(t, [NoArgs EXCEPT !.op = "PrintRange2String", !.v = c])

Call_PrintContainerToString(t) ==
    \E c \in Vectors, containerName \in Names :
        Invoke(t, [NoArgs EXCEPT !.op = "PrintContainerToString", !.v = c, !.str = containerName])

Call_PrintContainer2String(t) ==
    \E c \in Vectors, containerName \in Names :
        Invoke(t, [NoArgs EXCEPT !.op = "PrintContainer2String", !.v = c, !.str = containerName])

Call_PrintVectorToString(t) ==
    \E c \in Vectors, containerName \in Names :
        Invoke(t, [NoArgs EXCEPT !.op = "PrintVectorToString", !.v = c, !.str = containerName])

Call_PrintVector2String(t) ==
    \E c \in Vectors, containerName \in Names :
        Invoke(t, [NoArgs EXCEPT !.op = "PrintVector2String", !.v = c, !.str = containerName])

Call_PrintVectorMapping(t) ==
    \E v \in Vectors, vectorName \in Names :
        Invoke(t, [NoArgs EXCEPT !.op = "PrintVectorMapping", !.v = v, !.str = vectorName])

Call_PRINT(t) ==
    \E a \in Scalars :
        Invoke(t, [NoArgs EXCEPT !.op = "PRINT", !.a = a])

Call_PRINTLF(t) ==
    \E a \in Scalars :
        Invoke(t, [NoArgs EXCEPT !.op = "PRINTLF", !.a = a])

Call_PRINT_FUNCTION_NAME(t) ==
    \E func \in Funcs :
        Invoke(t, [NoArgs EXCEPT !.op = "PRINT_FUNCTION_NAME", !.str = func])

Call_PRINT_FUNCTION_SPLIT_LINE(t) ==
    \E func \in Funcs :
        Invoke(t, [NoArgs EXCEPT !.op = "PRINT_FUNCTION_SPLIT_LINE", !.str = func])

Call_PRINT_CONTAINER(t) ==
    \E c \in Vectors :
        Invoke(t, [NoArgs EXCEPT !.op = "PRINT_CONTAINER", !.v = c])

Call_PRINT_CONTAINER_TO_STRING(t) ==
    \E v \in Vectors :
        Invoke(t, [NoArgs EXCEPT !.op = "PRINT_CONTAINER_TO_STRING", !.v = v])

Call_PRINT_CONTAINER_2_STRING(t) ==
    \E v \in Vectors :
        Invoke(t, [NoArgs EXCEPT !.op = "PRINT_CONTAINER_2_STRING", !.v = v])

Call_PRINT_VECTOR_TO_STRING(t) ==
    \E v \in Vectors :
        Invoke(t, [NoArgs EXCEPT !.op = "PRINT_VECTOR_TO_STRING", !.v = v])

Call_PRINT_VECTOR_2_STRING(t) ==
    \E v \in Vectors :
        Invoke(t, [NoArgs EXCEPT !.op = "PRINT_VECTOR_2_STRING", !.v = v])

Call_PRINT_VECTOR_MAPPING(t) ==
    \E v \in Vectors :
        Invoke(t, [NoArgs EXCEPT !.op = "PRINT_VECTOR_MAPPING", !.v = v])

\* The caller's contract: from <= to <= v.size() (anything else is
\* undefined and left to the caller).
Call_PrintVectorRange(t) ==
    \E v \in Vectors :
        \E from \in 0..Len(v) :
            \E to \in from..Len(v) :
                Invoke(t, [NoArgs EXCEPT !.op = "PrintVectorRange", !.v = v,
                                         !.from = from, !.to = to])

\* ----------------------------------------------------------- specifications

TypeOK ==
    /\ debug \in BOOLEAN
    /\ pc \in [Threads -> {"idle", "write", "test", "step", "crashed"}]
    /\ calls \in [Threads -> 0..MaxCalls]
    /\ \A i \in 1..Len(sink) : sink[i].by \in Threads \cup {0}

\* One thread: a call in either build, its repetitions, and every write.
Init ==
    /\ debug \in BOOLEAN
    /\ sink \in Prior
    /\ pc = [t \in Threads |-> "idle"]
    /\ frame = [t \in Threads |-> NoFrame]
    /\ calls = [t \in Threads |-> 0]

Next ==
    \/ Call_Print_1(1)
    \/ Call_PrintLF_1(1)
    \/ Call_Print_2(1)
    \/ Call_PrintLF_2(1)
    \/ Call_PrintSplit(1)
    \/ Call_PrintSplitLF(1)
    \/ Call_PrintEQ(1)
    \/ Call_PrintEQLF(1)
    \/ Call_PrintVS(1)
    \/ Call_PrintVSLF(1)
    \/ Call_PrintElement(1)
    \/ Call_PrintRange(1)
    \/ Call_PrintContainer(1)
    \/ Call_PrintAB2String(1)
    \/ Call_Print2String(1)
    \/ Call_PrintRangeToString(1)
    \/ Call_PrintRange2String(1)
    \/ Call_PrintContainerToString(1)
    \/ Call_PrintContainer2String(1)
    \/ Call_PrintVectorToString(1)
    \/ Call_PrintVector2String(1)
    \/ Call_PrintVectorMapping(1)
    \/ Call_PRINT(1)
    \/ Call_PRINTLF(1)
    \/ Call_PRINT_FUNCTION_NAME(1)
    \/ Call_PRINT_FUNCTION_SPLIT_LINE(1)
    \/ Call_PRINT_CONTAINER(1)
    \/ Call_PRINT_CONTAINER_TO_STRING(1)
    \/ Call_PRINT_CONTAINER_2_STRING(1)
    \/ Call_PRINT_VECTOR_TO_STRING(1)
    \/ Call_PRINT_VECTOR_2_STRING(1)
    \/ Call_PRINT_VECTOR_MAPPING(1)
    \/ Call_PrintVectorRange(1)
    \/ Recall(1)
    \/ Write(1)
    \/ RangeLoopExit(1)
    \/ RangeLoopBody(1)
    \/ RangeLoopStep(1)
    \/ RangeLoopOverrun(1)

Spec == Init /\ [][Next]_vars

\* Two threads in the enabled build, each making one call of a function
\* that writes several fragments, against the one sink.
InitConc ==
    /\ debug = TRUE
    /\ sink = <<>>
    /\ pc = [t \in Threads |-> "idle"]
    /\ frame = [t \in Threads |-> NoFrame]
    /\ calls = [t \in Threads |-> 0]

NextConc ==
    \E t \in Threads :
        \/ Call_PrintEQLF(t)
        \/ Call_PrintVSLF(t)
        \/ Call_PrintSplitLF(t)
        \/ Call_PrintElement(t)
        \/ Write(t)

SpecConc == InitConc /\ [][NextConc]_vars

\* ------------------------------------------------------------------ claims
\* Returned(t): thread t has made a call in the enabled build and the call
\* has returned; its output is OutText(t).
Returned(t) == debug /\ calls[t] > 0 /\ pc[t] = "idle"

Op(t) == frame[t].call.op

Arg(t) == frame[t].call

\* C1: without GLUTEN_PRINT_DEBUG every call returns at once and nothing is
\* ever written: no thread has a write pending or is inside a call, and the
\* sink holds no fragment written by a thread (only what it held before).
C1_DisabledWritesNothing ==
    ~debug =>
        /\ \A t \in Threads : pc[t] = "idle" /\ frame[t].pending = <<>>
        /\ \A i \in 1..Len(sink) : sink[i].by \notin Threads

\* Reached: the disabled build after two calls, the last one of the macro
\* PRINT_VECTOR_MAPPING over a non-empty vector, the sink still holding
\* exactly its earlier contents.
C1_Witness ==
    /\ ~debug
    /\ calls[1] >= 2
    /\ Op(1) = "PRINT_VECTOR_MAPPING"
    /\ Arg(1).v = <<10, 20>>
    /\ SinkText = "prior\n"

\* The text "e1.ToString() e2.ToString() ... " of all elements of c from
\* the i-th on, each followed by one space.
RECURSIVE EveryElement(_, _, _)
EveryElement(op, c, i) ==
    IF i > Len(c) THEN ""
    ELSE RenderElement(op, c[i]) \o " " \o EveryElement(op, c, i + 1)

\* C2: a returned PrintRangeToString / PrintRange2String call over e1..en
\* has written "{ ", then every element's text once, in order, each
\* followed by a space, then "}", and no newline.
C2_RangeToStringWritesEveryElement ==
    \A t \in Threads :
        Returned(t) /\ Op(t) \in {"PrintRangeToString", "PrintRange2String"}
            => OutText(t) = "{ " \o EveryElement(Op(t), Arg(t).v, 1) \o "}"

\* C3: no call moves its cursor beyond the end of its input, and no call
\* faults.
C3_CursorStaysInRange ==
    \A t \in Threads :
        /\ frame[t].it <= Len(Arg(t).v)
        /\ pc[t] # "crashed"

\* The operations that take an optional label or prefix.
LabelOps ==
    {"PrintContainer", "Print2String", "PrintContainerToString",
     "PrintContainer2String", "PrintVectorToString", "PrintVector2String",
     "PrintVectorMapping"}

\* C4: a call of an operation of LabelOps with an empty label writes no
\* label-attached punctuation first: its output does not begin with a
\* space, a colon, an equals sign or a newline.
C4_EmptyLabelWritesNoPunctuation ==
    \A t \in Threads :
        debug /\ calls[t] > 0 /\ Op(t) \in LabelOps /\ Arg(t).str = ""
              /\ OutText(t) # ""
            => SubSeq(OutText(t), 1, 1) \notin {" ", ":", "=", "\n"}

\* The lines "\t" i " -> " v[i] "\n" for the indices i .. size-1.
RECURSIVE MappingLines(_, _)
MappingLines(v, i) ==
    IF i >= Len(v) THEN ""
    ELSE "\t" \o Dec(i) \o " -> " \o Dec(v[i + 1]) \o "\n" \o MappingLines(v, i + 1)

\* C5: a returned PrintVectorMapping(v) call without a label has written
\* exactly "{\n", one line per index, "}\n", and nothing before the brace;
\* for [10,20] that is "{\n\t0 -> 10\n\t1 -> 20\n}\n".
C5_VectorMappingExactOutput ==
    \A t \in Threads :
        Returned(t) /\ Op(t) = "PrintVectorMapping" /\ Arg(t).str = ""
            => /\ OutText(t) = "{\n" \o MappingLines(Arg(t).v, 0) \o "}\n"
               /\ Arg(t).v = <<10, 20>>
                     => OutText(t) = "{\n\t0 -> 10\n\t1 -> 20\n}\n"

\* C6, as stated: over an empty range the returned PrintRangeToString /
\* PrintRange2String call has written exactly "{}", and PrintRange "{ }"
\* and a newline.
C6_EmptyRangeUnpadded ==
    \A t \in Threads :
        Returned(t) /\ Arg(t).v = <<>>
            => /\ Op(t) \in {"PrintRangeToString", "PrintRange2String"}
                     => OutText(t) = "{}"
               /\ Op(t) = "PrintRange" => OutText(t) = "{ }\n"

\* C6, amended: over an empty range the returned PrintRangeToString /
\* PrintRange2String call has written exactly "{ }" (the padded form,
\* without a newline), and PrintRange "{ }" and a newline.
C6_EmptyRangePadded ==
    \A t \in Threads :
        Returned(t) /\ Arg(t).v = <<>>
            => /\ Op(t) \in {"PrintRangeToString", "PrintRange2String"}
                     => OutText(t) = "{ }"
               /\ Op(t) = "PrintRange" => OutText(t) = "{ }\n"

\* Reached: a returned PrintRange2String call over the empty range.
C6_Witness ==
    /\ Returned(1)
    /\ Op(1) = "PrintRange2String"
    /\ Arg(1).v = <<>>
    /\ OutText(1) = "{ }"

\* The text "e1 e2 ... " of the elements of c from the i-th on, each
\* followed by one space.
RECURSIVE PlainElements(_, _)
PlainElements(c, i) ==
    IF i > Len(c) THEN ""
    ELSE Dec(c[i]) \o " " \o PlainElements(c, i + 1)

\* C7: a returned PrintContainer(c, name) call has written name and a space
\* (only for a non-empty name), "size = N ", "{ ", every element followed
\* by a space, "}" and a newline, N being the number of elements printed;
\* for the empty collection and the name "X" that is "X size = 0 { }\n",
\* and PrintRange over [1,2,3] writes "{ 1 2 3 }\n".
C7_ContainerExactOutput ==
    \A t \in Threads :
        /\ Returned(t) /\ Op(t) = "PrintContainer"
             => /\ OutText(t) =
                      (IF Arg(t).str # "" THEN Arg(t).str \o " " ELSE "")
                          \o "size = " \o Dec(Len(Arg(t).v)) \o " "
                          \o "{ " \o PlainElements(Arg(t).v, 1) \o "}" \o "\n"
                /\ Len(OutFrags(t)) =
                      (IF Arg(t).str # "" THEN 2 ELSE 0) + 3 + 1
                          + 2 * Len(Arg(t).v) + 2
                /\ Arg(t).v = <<>> /\ Arg(t).str = "X"
                      => OutText(t) = "X size = 0 { }\n"
        /\ Returned(t) /\ Op(t) = "PrintRange" /\ Arg(t).v = <<1, 2, 3>>
             => OutText(t) = "{ 1 2 3 }\n"

\* Reached: a returned PrintContainer call over [1,2,3] with the name "X".
C7_Witness ==
    /\ Returned(1)
    /\ Op(1) = "PrintContainer"
    /\ Arg(1).v = <<1, 2, 3>>
    /\ Arg(1).str = "X"
    /\ OutText(1) = "X size = 3 { 1 2 3 }\n"

\* The elements v[from] .. v[to-1], the first as it is and every later one
\* after ", ".
RECURSIVE CommaSeparated(_, _, _, _)
CommaSeparated(v, from, i, to) ==
    IF i >= to THEN ""
    ELSE (IF i > from THEN ", " ELSE "") \o Dec(v[i + 1])
             \o CommaSeparated(v, from, i + 1, to)

\* C8: a returned PrintVectorRange(v, from, to) call with
\* from <= to <= size(v) has written "{", the elements v[from] .. v[to-1]
\* separated by ", ", "}" and a newline; "{}\n" when from = to, and
\* "{6, 7}\n" for [5,6,7,8], 1, 3.
C8_VectorRangeExactOutput ==
    \A t \in Threads :
        Returned(t) /\ Op(t) = "PrintVectorRange"
            => /\ OutText(t) =
                     "{" \o CommaSeparated(Arg(t).v, Arg(t).from, Arg(t).from,
                                            Arg(t).to) \o "}\n"
               /\ Arg(t).from = Arg(t).to => OutText(t) = "{}\n"
               /\ Arg(t).v = <<5, 6, 7, 8>> /\ Arg(t).from = 1 /\ Arg(t).to = 3
                     => OutText(t) = "{6, 7}\n"

\* Reached: the returned call PrintVectorRange([5,6,7,8], 1, 3).
C8_Witness ==
    /\ Returned(1)
    /\ Op(1) = "PrintVectorRange"
    /\ Arg(1).v = <<5, 6, 7, 8>>
    /\ Arg(1).from = 1
    /\ Arg(1).to = 3
    /\ OutText(1) = "{6, 7}\n"

\* The string literals the functions and macros write.
Literals ==
    {": ", " = ", " vs ", ", ", "{ ", " ", "}", "\n", "size = ", " = {", " }",
     "\n{\n", "\t", " -> ", "{", "===== ", " ======"}

\* The texts a call's arguments determine: the renderings of its values,
\* its string argument, the text of a macro's argument expression, the
\* sizes and indices of its container and the renderings of its elements.
ArgTexts(c) ==
    {Render(c.a), Render(c.b), c.str, toString(c.o), "a", "c", "v"}
        \cup {Dec(i) : i \in 0..Len(c.v)}
        \cup {Dec(c.v[i]) : i \in 1..Len(c.v)}
        \cup {ToString(c.v[i]) : i \in 1..Len(c.v)}
        \cup {toString(c.v[i]) : i \in 1..Len(c.v)}

\* C9: what a call appends depends only on its arguments: every fragment
\* it has written is a literal of the function or a text its arguments
\* determine, and a call repeated with the same arguments has, once
\* returned, appended the very text the call before it appended.
C9_OutputDependsOnlyOnArguments ==
    \A t \in Threads :
        debug /\ calls[t] > 0
            => /\ \A i \in 1..Len(OutFrags(t)) :
                     OutFrags(t)[i] \in Literals \cup ArgTexts(Arg(t))
               /\ pc[t] = "idle" /\ calls[t] >= 2 => OutText(t) = frame[t].prev

\* C10: with two threads writing to the one sink, each thread's fragments
\* are in the sink in that thread's program order, none lost and none
\* duplicated: what a thread's call has written, followed by what it has
\* still to write, is the call's series of fragments (for PrintEQLF(a, b):
\* a, " = ", b, newline), and the sink holds nothing else.
C10_FragmentsInProgramOrder ==
    /\ \A t \in Threads :
          calls[t] > 0
              => /\ OutFrags(t) \o frame[t].pending = Enabled(Arg(t))
                 /\ Op(t) = "PrintEQLF"
                       => OutFrags(t) \o frame[t].pending =
                              <<Render(Arg(t).a), " = ", Render(Arg(t).b), "\n">>
    /\ Len(sink) = Len(OutFrags(1)) + Len(OutFrags(2))

\* Reached: both threads have returned from PrintEQLF and the line of
\* thread 1 is split by a fragment of thread 2.
C10_Witness ==
    /\ \A t \in Threads : Returned(t) /\ Op(t) = "PrintEQLF"
    /\ sink[1].by = 1
    /\ sink[2].by = 2
    /\ sink[3].by = 1
    /\ SinkText # Cat(PrintEQLF(Arg(1).a, Arg(1).b)) \o Cat(PrintEQLF(Arg(2).a, Arg(2).b))

====
